---------------------------- MODULE Spec2Model ----------------------------
(***************************************************************************)
(* Model of src/src/main.rs: forge_signal (the construction of a 32 x 25   *)
(* execution trace from public data only) and main (verification of the    *)
(* returned signal and the final nullifier assertion).                     *)
(*                                                                         *)
(* Field.  The code works in the 64-bit field of order 2^64 - 2^32 + 1.    *)
(* The model works in the field of order P = 2^8 - 2^4 + 1 = 241, the      *)
(* 8-bit member of the same family.  P - 1 = 240 divides 2^64 - 2^32, so   *)
(* every exponent e with 7 * e = 1 modulo 2^64 - 2^32 also inverts the     *)
(* S-box x^7 in the model field; the exponent literal of main.rs:85 is     *)
(* kept digit for digit and exponentiation by it is computed, not assumed. *)
(*                                                                         *)
(* Indices are the source's: states are functions on 0..11, trace rows are *)
(* functions on 0..24, the trace is a function on 0..31.                   *)
(***************************************************************************)
EXTENDS Integers, Sequences, FiniteSets, TLC

\* ------------------------------------------------------------------------
\* Bounds of the model
\* ------------------------------------------------------------------------

\* the target public key is drawn from the keys of seeds 0..MaxKey
MaxKey == 7

\* seeds of the 12-element states the single-round specification starts from
MaxSeed == 2

\* ------------------------------------------------------------------------
\* Field arithmetic (winterfell::math::fields::f64::BaseElement, scaled)
\* ------------------------------------------------------------------------

P == 2^8 - 2^4 + 1

Felt == 0..(P - 1)

ZERO == 0

ONE == 1

FAdd(a, b) == (a + b) % P

FSub(a, b) == (a + P - b) % P

FMul(a, b) == (a * b) % P

RECURSIVE FExp(_, _)
\* square-and-multiply, e a machine-size exponent
FExp(b, e) ==
    IF e = 0 THEN 1
    ELSE LET h == FExp(b, e \div 2)
             hh == FMul(h, h)
         IN  IF e % 2 = 1 THEN FMul(hh, b) ELSE hh

RECURSIVE ToSeq(_, _, _)
\* <<f[lo], ..., f[hi]>>, by halving
ToSeq(f, lo, hi) ==
    IF lo > hi THEN <<>>
    ELSE IF lo = hi THEN <<f[lo]>>
    ELSE ToSeq(f, lo, (lo + hi) \div 2) \o ToSeq(f, (lo + hi) \div 2 + 1, hi)

\* the function f on 0..n-1 with every value computed once (a [i \in S |-> e]
\* is otherwise recomputed at each application)
Vec(f, n) == LET seq == ToSeq(f, 0, n - 1) IN [i \in 0..(n - 1) |-> seq[i + 1]]

\* Vec for the 12-element states and the 4-element digests
Vec12(f) ==
    LET seq == <<f[0], f[1], f[2], f[3], f[4], f[5], f[6], f[7], f[8], f[9],
                 f[10], f[11]>>
    IN  [i \in 0..11 |-> seq[i + 1]]

Vec4(f) == LET seq == <<f[0], f[1], f[2], f[3]>> IN [i \in 0..3 |-> seq[i + 1]]

\* TRUE, once every value of the function f has been computed: used to have
\* a vector computed before the next step reads it
Computed(f) == f \in [DOMAIN f -> Int]

\* the S-box exponent, main.rs:74 (s.exp(7))
ALPHA == 7

\* the exponent literal of main.rs:85, 10540996611094048183, as decimal
\* limbs of four digits, most significant first
INV_ALPHA_LIMBS == <<1054, 996, 6110, 9404, 8183>>

LIMB_BASE == 10000

\* x -> x^LIMB_BASE as a table over the field
POW_LIMB_BASE == Vec([x \in Felt |-> FExp(x, LIMB_BASE)], P)

RECURSIVE FExpDigits(_, _, _)
\* b ^ (the number whose base-LIMB_BASE digits are limbs[1..n]), by Horner's
\* rule on the exponent: b^(q*B + d) = (b^q)^B * b^d
FExpDigits(b, limbs, n) ==
    IF n = 0 THEN 1
    ELSE FMul(POW_LIMB_BASE[FExpDigits(b, limbs, n - 1)], FExp(b, limbs[n]))

FExpLimbs(b, limbs) == FExpDigits(b, limbs, Len(limbs))

\* x -> x^7 (main.rs:74) and x -> x^10540996611094048183 (main.rs:85) as
\* tables over the field
POW_ALPHA == Vec([x \in Felt |-> FExp(x, ALPHA)], P)

POW_INV_ALPHA == Vec([x \in Felt |-> FExpLimbs(x, INV_ALPHA_LIMBS)], P)

\* beta = alpha^-1 mod (P - 1): the exponent of the forward inverse S-box
\* in the model field
RECURSIVE ModInv(_, _, _)
ModInv(a, m, k) == IF (a * k) % m = 1 THEN k ELSE ModInv(a, m, k + 1)

BETA == ModInv(ALPHA, P - 1, 1)

\* ------------------------------------------------------------------------
\* The permutation's public constants (semaphore::air::rescue)
\* ------------------------------------------------------------------------

STATE_WIDTH == 12

NUM_ROUNDS == 7

Idx == 0..(STATE_WIDTH - 1)

Rounds == 0..(NUM_ROUNDS - 1)

\* first row of the circulant mixing matrix M
MDS_ROW == <<7, 23, 8, 26, 13, 10, 9, 7, 6, 22, 21, 8>>

\* first row of the circulant M^-1 over the model field
INV_MDS_ROW == <<92, 232, 59, 131, 227, 98, 197, 187, 190, 59, 202, 132>>

MDS == [i \in Idx |-> [j \in Idx |-> MDS_ROW[((j - i + STATE_WIDTH) % STATE_WIDTH) + 1]]]

INV_MDS == [i \in Idx |-> [j \in Idx |-> INV_MDS_ROW[((j - i + STATE_WIDTH) % STATE_WIDTH) + 1]]]

\* round constants: fixed public tables, one 12-vector per round
ARK1 == [r \in Rounds |-> [i \in Idx |-> ((r + 1) * (i + 3) * (i + 3) + 31 * r + 7 * i + 1) % P]]

ARK2 == [r \in Rounds |-> [i \in Idx |-> ((r + 2) * (i + 5) * (i + 1) + 17 * r + 3 * i + 2) % P]]

\* sum over j in 0..11 of row[j] * s[j], in the field
Dot(row, s) ==
    ( row[0] * s[0] + row[1] * s[1] + row[2] * s[2] + row[3] * s[3]
    + row[4] * s[4] + row[5] * s[5] + row[6] * s[6] + row[7] * s[7]
    + row[8] * s[8] + row[9] * s[9] + row[10] * s[10] + row[11] * s[11] ) % P

MatVec(m, s) == Vec12([i \in Idx |-> Dot(m[i], s)])

apply_mds(s) == MatVec(MDS, s)

apply_inv_mds(s) == MatVec(INV_MDS, s)

\* the forward S-box x -> x^ALPHA and inverse S-box x -> x^BETA as tables
\* over the field
SBOX == Vec([x \in Felt |-> FExp(x, ALPHA)], P)

INV_SBOX == Vec([x \in Felt |-> FExp(x, BETA)], P)

\* one forward round: S-box, M, +ARK1[r], inverse S-box, M, +ARK2[r]
apply_rescue_round(s, r) ==
    LET s2 == apply_mds([i \in Idx |-> SBOX[s[i]]])
        s5 == apply_mds([i \in Idx |-> INV_SBOX[FAdd(s2[i], ARK1[r][i])]])
    IN  Vec12([i \in Idx |-> FAdd(s5[i], ARK2[r][i])])

\* the inverse round with the two exponents exchanged: the literal first,
\* 7 second
inverse_rescue_round_exponents_swapped(s, r) ==
    LET s2 == apply_inv_mds([i \in Idx |-> FSub(s[i], ARK2[r][i])])
        s5 == apply_inv_mds([i \in Idx |-> FSub(POW_INV_ALPHA[s2[i]], ARK1[r][i])])
    IN  Vec12([i \in Idx |-> POW_ALPHA[s5[i]]])

\* the inverse round with the two constant tables exchanged: ARK1 first,
\* ARK2 second
inverse_rescue_round_constants_swapped(s, r) ==
    LET s2 == apply_inv_mds([i \in Idx |-> FSub(s[i], ARK1[r][i])])
        s5 == apply_inv_mds([i \in Idx |-> FSub(POW_ALPHA[s2[i]], ARK2[r][i])])
    IN  Vec12([i \in Idx |-> POW_INV_ALPHA[s5[i]]])

\* inverse of one round, as the loop body of forge_signal writes it out
\* (main.rs:66-85), r its `round`: -ARK2[r], M^-1, ^7, -ARK1[r], M^-1,
\* ^literal
inverse_rescue_round(s, r) ==
    LET s2 == apply_inv_mds([i \in Idx |-> FSub(s[i], ARK2[r][i])])
        s5 == apply_inv_mds([i \in Idx |-> FSub(POW_ALPHA[s2[i]], ARK1[r][i])])
    IN  Vec12([i \in Idx |-> POW_INV_ALPHA[s5[i]]])

RECURSIVE apply_permutation(_, _)
\* rounds 0..n-1 of the forward permutation (Rp64_256::apply_permutation
\* is apply_permutation(s, NUM_ROUNDS))
apply_permutation(s, n) ==
    IF n = 0 THEN s
    ELSE LET prev == apply_permutation(s, n - 1)
         IN  IF Computed(prev) THEN apply_rescue_round(prev, n - 1) ELSE prev

\* ------------------------------------------------------------------------
\* Digests and the Merkle tree (winterfell::crypto)
\* ------------------------------------------------------------------------

DigestIdx == 0..3

Digests == [DigestIdx -> Felt]

\* Rp64_256::merge: capacity [8,0,0,0], the two digests in the rate,
\* 7 rounds, the digest is state[4..8]
Merge(a, b) ==
    LET st == Vec12([i \in Idx |->
                        IF i = 0 THEN 8
                        ELSE IF i < 4 THEN ZERO
                        ELSE IF i < 8 THEN a[i - 4]
                        ELSE b[i - 8]])
        out == apply_permutation(st, NUM_ROUNDS)
    IN  Vec4([j \in DigestIdx |-> out[4 + j]])

NUM_KEYS == 8

KeyIdx == 0..(NUM_KEYS - 1)

RECURSIVE TreeNode(_, _)
\* MerkleTree::new: node i of the implicit binary heap over the leaves;
\* nodes NUM_KEYS..2*NUM_KEYS-1 are the leaves, node 1 is the root
TreeNode(leaves, i) ==
    IF i >= NUM_KEYS THEN leaves[i - NUM_KEYS]
    ELSE LET left == TreeNode(leaves, 2 * i)
             right == TreeNode(leaves, 2 * i + 1)
         IN  IF Computed(left) /\ Computed(right) THEN Merge(left, right) ELSE left

MerkleRoot(leaves) == TreeNode(leaves, 1)

\* the sibling of heap node i
Sibling(i) == IF i % 2 = 0 THEN i + 1 ELSE i - 1

RECURSIVE PathFrom(_, _)
PathFrom(leaves, i) ==
    IF i <= 1 THEN <<>>
    ELSE <<TreeNode(leaves, Sibling(i))>> \o PathFrom(leaves, i \div 2)

\* MerkleTree::prove(index): the leaf, then the sibling at every level
MerkleProve(leaves, index) ==
    <<leaves[index]>> \o PathFrom(leaves, NUM_KEYS + index)

\* ------------------------------------------------------------------------
\* State
\* ------------------------------------------------------------------------

\* TraceTable::new(25, 32), main.rs:89
TRACE_WIDTH == 25

TRACE_LENGTH == 32

\* rows of one cycle: 1 state row + 7 round rows (8 * cycle_num, main.rs:146)
CYCLE_LENGTH == 8

\* cycles 1..3 (main.rs:129) follow cycle 0
LAST_CYCLE == 3

Cols == 0..(TRACE_WIDTH - 1)

Rows == 0..(TRACE_LENGTH - 1)

\* a cell of the freshly allocated table that no update_row or set has
\* written yet; it is not a field element
UNINIT == -1

VARIABLES
    pc,            \* position in main / forge_signal
    pub_keys,      \* PUB_KEYS parsed: KeyIdx -> digest
    topic_hash,    \* Rescue::hash(TOPIC)
    rescue_state,  \* forge_signal's rescue_state, [Felt; 12]
    round,         \* loop variable of the round loops
    cycle_num,     \* loop variable of the cycle loop
    trace,         \* the TraceTable: Rows -> (Cols -> cell)
    trace_state,   \* forge_signal's trace_state, [Felt; 25]
    nullifier,     \* forge_signal's nullifier (<<>> before it is saved)
    merkle_path,   \* key_tree.prove(0) (<<>> before it is computed)
    signal,        \* the Signal returned to main (<<>> before)
    verify_result, \* outcome of access_set.verify_signal: "none", "Ok", "Err"
    log,           \* what main has reported through debug!
    rt_input       \* single-round specification: the state it started from

vars == <<pc, pub_keys, topic_hash, rescue_state, round, cycle_num, trace,
          trace_state, nullifier, merkle_path, signal, verify_result, log,
          rt_input>>

forgeVars == <<pub_keys, topic_hash, trace, trace_state, nullifier,
               merkle_path, signal, verify_result, log, cycle_num>>

\* ------------------------------------------------------------------------
\* Inputs
\* ------------------------------------------------------------------------

\* number of topic digests the model draws Rescue::hash(TOPIC) from, less one
MaxTopic == 1

ZeroState == [i \in Idx |-> ZERO]

\* PUB_KEYS[1..7]: fixed keys of the other members
OtherKey(k) == [j \in DigestIdx |-> (37 * k + 11 * j + 5) % P]

\* PUB_KEYS[0]: the key of seed k; seed 0 is the all-zero key
TargetKeyOf(k) == [j \in DigestIdx |-> (k * (3 * j + 1) + 5 * k * k) % P]

TargetKeys == {TargetKeyOf(k) : k \in 0..MaxKey}

TopicDigests == {[j \in DigestIdx |-> (53 * k + 29 * j + 9) % P] : k \in 0..MaxTopic}

\* the digest main compares the forged nullifier's bytes with (main.rs:224);
\* a digest's bytes are its four elements in order, one byte per element in
\* the model field
HONEST_NULLIFIER_BYTES == <<24, 210, 11, 103>>

to_bytes(d) == <<d[0], d[1], d[2], d[3]>>

Init ==
    /\ pc = "forge_start"
    /\ \E t \in TargetKeys :
          pub_keys = [k \in KeyIdx |-> IF k = 0 THEN t ELSE OtherKey(k)]
    /\ topic_hash \in TopicDigests
    /\ rescue_state = ZeroState
    /\ round = 0
    /\ cycle_num = 0
    /\ trace = [r \in Rows |-> [c \in Cols |-> UNINIT]]
    /\ trace_state = [c \in Cols |-> ZERO]
    /\ nullifier = <<>>
    /\ merkle_path = <<>>
    /\ signal = <<>>
    /\ verify_result = "none"
    /\ log = <<>>
    /\ rt_input = ZeroState

\* ------------------------------------------------------------------------
\* forge_signal
\* ------------------------------------------------------------------------

\* main.rs:48-62: the state in which the target key's elements appear
initial_rescue_state(first_pubkey) ==
    [i \in Idx |-> IF i \in 4..7 THEN first_pubkey[i - 4] ELSE ZERO]

\* main.rs:199, 44-62: main calls forge_signal, which targets pub_keys[0]
ForgeStart ==
    /\ pc = "forge_start"
    /\ rescue_state' = initial_rescue_state(pub_keys[0])
    /\ round' = NUM_ROUNDS - 1
    /\ pc' = "inverse"
    /\ UNCHANGED <<forgeVars, rt_input>>

\* main.rs:65-86: one iteration of `for round in (0..7).rev()`
InverseRound ==
    /\ pc = "inverse"
    /\ rescue_state' = inverse_rescue_round(rescue_state, round)
    /\ IF round = 0
       THEN pc' = "seed0" /\ round' = 0
       ELSE pc' = "inverse" /\ round' = round - 1
    /\ UNCHANGED <<forgeVars, rt_input>>

\* row 0 with trace_state[16..20] taken from rescue_state[0..4]
cycle0_state_wrong_slice(rs, th) ==
    [c \in Cols |->
        IF c < 12 THEN rs[c]
        ELSE IF c = 12 THEN 8
        ELSE IF c \in 16..19 THEN rs[c - 16]
        ELSE IF c \in 20..23 THEN th[c - 20]
        ELSE ZERO]

\* main.rs:92-99: trace_state of row 0
cycle0_state(rs, th) ==
    [c \in Cols |->
        IF c < 12 THEN rs[c]
        ELSE IF c = 12 THEN 8
        ELSE IF c \in 16..19 THEN rs[c - 12]
        ELSE IF c \in 20..23 THEN th[c - 20]
        ELSE ZERO]

\* TraceTable::update_row(step, state)
update_row(tr, step, st) == [tr EXCEPT ![step] = st]

\* main.rs:88-100
SeedCycle0 ==
    /\ pc = "seed0"
    /\ trace_state' = cycle0_state(rescue_state, topic_hash)
    /\ trace' = update_row([r \in Rows |-> [c \in Cols |-> UNINIT]], 0, trace_state')
    /\ round' = 0
    /\ cycle_num' = 0
    /\ pc' = "nullifier_rounds"
    /\ UNCHANGED <<pub_keys, topic_hash, rescue_state, nullifier, merkle_path,
                   signal, verify_result, log, rt_input>>

\* the round step without the second apply_rescue_round call
round_first_lane_only(st, r) ==
    LET lane0 == apply_rescue_round([i \in Idx |-> st[i]], r)
    IN  [c \in Cols |-> IF c < 12 THEN lane0[c] ELSE st[c]]

\* main.rs:104-105 and 149-150: one round on trace_state[..12] and one on
\* trace_state[12..24]; trace_state[24] is not touched
round_both_lanes(st, r) ==
    LET lane0 == apply_rescue_round([i \in Idx |-> st[i]], r)
        lane1 == apply_rescue_round([i \in Idx |-> st[12 + i]], r)
    IN  [c \in Cols |->
            IF c < 12 THEN lane0[c]
            ELSE IF c < 24 THEN lane1[c - 12]
            ELSE st[c]]

\* main.rs:103-107: one iteration of the cycle-0 round loop
NullifierRound ==
    /\ pc = "nullifier_rounds"
    /\ trace_state' = round_both_lanes(trace_state, round)
    /\ trace' = update_row(trace, round + 1, trace_state')
    /\ IF round = NUM_ROUNDS - 1
       THEN pc' = "save_nullifier" /\ round' = 0
       ELSE pc' = "nullifier_rounds" /\ round' = round + 1
    /\ UNCHANGED <<pub_keys, topic_hash, rescue_state, cycle_num, nullifier,
                   merkle_path, signal, verify_result, log, rt_input>>

\* the nullifier read from the first lane's digest columns
saved_nullifier_first_lane(st) == [j \in DigestIdx |-> st[4 + j]]

\* main.rs:110-115
saved_nullifier(st) == [j \in DigestIdx |-> st[16 + j]]

SaveNullifier ==
    /\ pc = "save_nullifier"
    /\ nullifier' = saved_nullifier(trace_state)
    /\ pc' = "merkle"
    /\ UNCHANGED <<pub_keys, topic_hash, rescue_state, round, cycle_num, trace,
                   trace_state, merkle_path, signal, verify_result, log, rt_input>>

\* main.rs:118-126: the leaves are the keys themselves; the three asserts
\* hold for every 8-key list (8 leaves, a path of 4, path[0] the first key)
BuildMerklePath ==
    /\ pc = "merkle"
    /\ LET path == MerkleProve(pub_keys, 0)
       IN  /\ merkle_path' = path
           /\ IF Len(path) = 4 /\ path[1] = pub_keys[0]
              THEN pc' = "seed_cycle" /\ cycle_num' = 1
              ELSE pc' = "panic" /\ cycle_num' = cycle_num
    /\ UNCHANGED <<pub_keys, topic_hash, rescue_state, round, trace, trace_state,
                   nullifier, signal, verify_result, log, rt_input>>

\* the cycle seed with the sibling on the left and the running digest on
\* the right
cycle_seed_state_sides_swapped(st, path_node) ==
    [c \in Cols |->
        IF c = 0 THEN 8
        ELSE IF c < 4 THEN ZERO
        ELSE IF c < 8 THEN path_node[c - 4]
        ELSE IF c < 12 THEN st[c - 4]
        ELSE IF c \in 16..19 THEN path_node[c - 16]
        ELSE ZERO]

\* the cycle seed with only trace_state[12..20] cleared
cycle_seed_state_short_clear(st, path_node) ==
    [c \in Cols |->
        IF c = 0 THEN 8
        ELSE IF c < 4 THEN ZERO
        ELSE IF c < 8 THEN st[c]
        ELSE IF c < 12 THEN path_node[c - 8]
        ELSE IF c \in 16..19 THEN st[c - 12]
        ELSE IF c < 20 THEN ZERO
        ELSE st[c]]

\* main.rs:130-145: trace_state at the start of cycle cycle_num; path_node
\* is merkle_path[cycle_num] (0-based)
cycle_seed_state(st, path_node) ==
    [c \in Cols |->
        IF c = 0 THEN 8
        ELSE IF c < 4 THEN ZERO
        ELSE IF c < 8 THEN st[c]
        ELSE IF c < 12 THEN path_node[c - 8]
        ELSE IF c \in 16..19 THEN st[c - 12]
        ELSE ZERO]

\* main.rs:129-146
SeedCycle ==
    /\ pc = "seed_cycle"
    /\ trace_state' = cycle_seed_state(trace_state, merkle_path[cycle_num + 1])
    /\ trace' = update_row(trace, CYCLE_LENGTH * cycle_num, trace_state')
    /\ round' = 0
    /\ pc' = "fill_rounds"
    /\ UNCHANGED <<pub_keys, topic_hash, rescue_state, cycle_num, nullifier,
                   merkle_path, signal, verify_result, log, rt_input>>

\* main.rs:148-152: one iteration of the round loop of cycles 1..3
FillRound ==
    /\ pc = "fill_rounds"
    /\ trace_state' = round_both_lanes(trace_state, round)
    /\ trace' = update_row(trace, CYCLE_LENGTH * cycle_num + round + 1, trace_state')
    /\ IF round < NUM_ROUNDS - 1
       THEN pc' = "fill_rounds" /\ round' = round + 1 /\ cycle_num' = cycle_num
       ELSE IF cycle_num < LAST_CYCLE
       THEN pc' = "seed_cycle" /\ round' = 0 /\ cycle_num' = cycle_num + 1
       ELSE pc' = "set_bit" /\ round' = 0 /\ cycle_num' = cycle_num
    /\ UNCHANGED <<pub_keys, topic_hash, rescue_state, nullifier, merkle_path,
                   signal, verify_result, log, rt_input>>

\* TraceTable::set(column, step, value)
trace_set(tr, column, step, value) == [tr EXCEPT ![step][column] = value]

\* the write with column and step exchanged: trace.set(1, 24, ONE)
set_technical_bit_swapped(tr) == trace_set(tr, 1, 24, ONE)

\* main.rs:158: trace.set(24, 1, FieldElement::ONE)
set_technical_bit(tr) == trace_set(tr, 24, 1, ONE)

SetBit ==
    /\ pc = "set_bit"
    /\ trace' = set_technical_bit(trace)
    /\ pc' = "prove"
    /\ UNCHANGED <<pub_keys, topic_hash, rescue_state, round, cycle_num,
                   trace_state, nullifier, merkle_path, signal, verify_result,
                   log, rt_input>>

\* main.rs:164-166, 199-207: prover.prove(trace) succeeded; the proof is
\* opaque, the model records the trace it was generated from
ProveOk ==
    /\ pc = "prove"
    /\ signal' = [nullifier |-> nullifier, proof |-> trace]
    /\ log' = log \o <<"Signal created">>
    /\ pc' = "verify"
    /\ UNCHANGED <<pub_keys, topic_hash, rescue_state, round, cycle_num, trace,
                   trace_state, nullifier, merkle_path, verify_result, rt_input>>

\* main.rs:165: .expect("failed to generate proof") on a ProvingError
ProveErr ==
    /\ pc = "prove"
    /\ pc' = "panic"
    /\ UNCHANGED <<forgeVars, rescue_state, round, rt_input>>

\* ------------------------------------------------------------------------
\* main
\* ------------------------------------------------------------------------

MSG_VERIFIED == "Signal verified"

MSG_WRONG == "something went terribly wrong"

\* main.rs:212-215: the Ok arm of the match
on_verify_ok(l) == [pc |-> "after_match", log |-> l \o <<MSG_VERIFIED>>]

\* an Err arm that unwraps the result instead of reporting it
on_verify_err_unwrap(l) == [pc |-> "panic", log |-> l]

\* main.rs:216: the Err arm of the match
on_verify_err(l) == [pc |-> "after_match", log |-> l \o <<MSG_WRONG>>]

\* main.rs:211-215: access_set.verify_signal(TOPIC, signal.clone()) is the
\* external verifier; it returns Ok(_) here
VerifyOk ==
    /\ pc = "verify"
    /\ verify_result' = "Ok"
    /\ pc' = on_verify_ok(log).pc
    /\ log' = on_verify_ok(log).log
    /\ UNCHANGED <<pub_keys, topic_hash, rescue_state, round, cycle_num, trace,
                   trace_state, nullifier, merkle_path, signal, rt_input>>

\* main.rs:211, 216: ... and Err(err) here
VerifyErr ==
    /\ pc = "verify"
    /\ verify_result' = "Err"
    /\ pc' = on_verify_err(log).pc
    /\ log' = on_verify_err(log).log
    /\ UNCHANGED <<pub_keys, topic_hash, rescue_state, round, cycle_num, trace,
                   trace_state, nullifier, merkle_path, signal, rt_input>>

\* main.rs:222-225: assert_ne!(signal.nullifier.to_bytes(), hex::decode(..))
AssertNe ==
    /\ pc = "after_match"
    /\ pc' = IF to_bytes(signal.nullifier) # HONEST_NULLIFIER_BYTES
             THEN "done" ELSE "panic"
    /\ UNCHANGED <<forgeVars, rescue_state, round, rt_input>>

Next ==
    \/ ForgeStart
    \/ InverseRound
    \/ SeedCycle0
    \/ NullifierRound
    \/ SaveNullifier
    \/ BuildMerklePath
    \/ SeedCycle
    \/ FillRound
    \/ SetBit
    \/ ProveOk
    \/ ProveErr
    \/ VerifyOk
    \/ VerifyErr
    \/ AssertNe

Spec == Init /\ [][Next]_vars

\* ------------------------------------------------------------------------
\* Single-round specification: one forward round, then the inverse round
\* of forge_signal, from a bounded set of 12-element states
\* ------------------------------------------------------------------------

RoundTripStates ==
    {[i \in Idx |-> (97 * a * i * i + 31 * b * i + 113 * c) % P] :
        a \in 0..MaxSeed, b \in 0..MaxSeed, c \in 0..MaxSeed}

InitRound ==
    /\ pc = "rt_start"
    /\ rt_input \in RoundTripStates
    /\ rescue_state = rt_input
    /\ round \in Rounds
    /\ pub_keys = [k \in KeyIdx |-> OtherKey(k)]
    /\ topic_hash = [j \in DigestIdx |-> ZERO]
    /\ cycle_num = 0
    /\ trace = [r \in Rows |-> [c \in Cols |-> UNINIT]]
    /\ trace_state = [c \in Cols |-> ZERO]
    /\ nullifier = <<>>
    /\ merkle_path = <<>>
    /\ signal = <<>>
    /\ verify_result = "none"
    /\ log = <<>>

RtForward ==
    /\ pc = "rt_start"
    /\ rescue_state' = apply_rescue_round(rescue_state, round)
    /\ pc' = "rt_forward"
    /\ UNCHANGED <<forgeVars, round, rt_input>>

RtInverse ==
    /\ pc = "rt_forward"
    /\ rescue_state' = inverse_rescue_round(rescue_state, round)
    /\ pc' = "rt_done"
    /\ UNCHANGED <<forgeVars, round, rt_input>>

NextRound == RtForward \/ RtInverse

SpecRound == InitRound /\ [][NextRound]_vars

\* ------------------------------------------------------------------------
\* Properties
\* ------------------------------------------------------------------------

RECURSIVE inverse_permutation(_, _)
\* main.rs:65-86 as a function: n iterations of `for round in (0..7).rev()`,
\* i.e. the inverse rounds 6, 5, ..., 7 - n
inverse_permutation(s, n) ==
    IF n = 0 THEN s
    ELSE LET prev == inverse_permutation(s, n - 1)
         IN  IF Computed(prev)
             THEN inverse_rescue_round(prev, NUM_ROUNDS - n)
             ELSE prev

\* columns off..off+11 of a trace row
Lane(row, off) == [i \in Idx |-> row[off + i]]

\* columns off..off+3 of a trace row
DigestAt(row, off) == [j \in DigestIdx |-> row[off + j]]

\* update_row has written row r
RowWritten(r) == trace[r][0] # UNINIT

\* the table as it is handed to prover.prove: all rows written and the
\* write of main.rs:158 done
TraceFinished == RowWritten(TRACE_LENGTH - 1) /\ pc # "set_bit"

\* the target key, PUB_KEYS[0]
TargetKey == pub_keys[0]

\* C1: whenever main completes successfully, verify_signal has accepted the
\* forged signal and the forged nullifier differs from the honest one.
C1_RunAssertsVerifyAndNullifier ==
    pc = "done" =>
        /\ verify_result = "Ok"
        /\ to_bytes(signal.nullifier) # HONEST_NULLIFIER_BYTES

\* C2: the inverse round of forge_signal applied to one forward round of a
\* state, with the same round index, gives the state back.
C2_InverseRoundUndoesRound ==
    pc = "rt_done" => rescue_state = rt_input

C2_Witness ==
    /\ pc = "rt_done"
    /\ round = NUM_ROUNDS - 1
    /\ rt_input # ZeroState
    /\ rescue_state = rt_input

\* C3: once row 7 is written, its columns 0..3 are 0, its columns 4..7 are
\* the target key and its columns 8..11 are 0; the pre-image in row 0 is
\* the 7 inverse rounds of [0,0,0,0, pk, 0,0,0,0], a function of the public
\* key alone.
C3_PreimageOpensToKey ==
    RowWritten(7) =>
        /\ \A c \in 0..3 : trace[7][c] = ZERO
        /\ \A c \in 4..7 : trace[7][c] = TargetKey[c - 4]
        /\ \A c \in 8..11 : trace[7][c] = ZERO
        /\ Lane(trace[0], 0) =
             inverse_permutation(
                 [i \in Idx |-> IF i \in 4..7 THEN TargetKey[i - 4] ELSE ZERO],
                 NUM_ROUNDS)

C3_Witness ==
    /\ pc = "save_nullifier"
    /\ RowWritten(7)
    /\ \E j \in DigestIdx : TargetKey[j] # ZERO
    /\ \E c \in 0..3 : trace[0][c] # ZERO
    /\ \A c \in 4..7 : trace[7][c] = TargetKey[c - 4]

\* C4: in the finished trace, the membership path has 4 digests and starts
\* with the target key, each of cycles 1..3 ends with the hash of (running
\* digest, sibling) in columns 4..7, and row 31 holds the Merkle root of the
\* 8 public keys in columns 4..7.
C4_PathOpensToRoot ==
    TraceFinished =>
        /\ Len(merkle_path) = 4
        /\ merkle_path[1] = TargetKey
        /\ \A c \in 1..LAST_CYCLE :
              DigestAt(trace[CYCLE_LENGTH * c + 7], 4) =
                  Merge(DigestAt(trace[CYCLE_LENGTH * c - 1], 4), merkle_path[c + 1])
        /\ DigestAt(trace[TRACE_LENGTH - 1], 4) = MerkleRoot(pub_keys)

C4_Witness ==
    /\ pc = "prove"
    /\ TraceFinished
    /\ DigestAt(trace[TRACE_LENGTH - 1], 4) = MerkleRoot(pub_keys)
    /\ DigestAt(trace[TRACE_LENGTH - 1], 4) # DigestAt(trace[23], 4)

\* C5: in the finished trace, for every cycle c in 0..3 and every r in 0..6,
\* row 8c+r+1 is one round r applied to row 8c+r, on columns 0..11 and on
\* columns 12..23.
C5_WithinCycleTransition ==
    TraceFinished =>
        \A c \in 0..LAST_CYCLE : \A r \in Rounds :
            /\ Lane(trace[CYCLE_LENGTH * c + r + 1], 0) =
                   apply_rescue_round(Lane(trace[CYCLE_LENGTH * c + r], 0), r)
            /\ Lane(trace[CYCLE_LENGTH * c + r + 1], 12) =
                   apply_rescue_round(Lane(trace[CYCLE_LENGTH * c + r], 12), r)

C5_Witness ==
    /\ pc = "prove"
    /\ TraceFinished
    /\ trace[1][24] = ONE
    /\ Lane(trace[2], 12) = apply_rescue_round(Lane(trace[1], 12), 1)
    /\ Lane(trace[2], 12) # Lane(trace[1], 12)

\* C6 as stated: once row 0 is written, its columns 12..23 are [8,0,0,0,
\* the target public key, Digest(Topic)] and its columns 0..11 are the
\* fabricated pre-image.
C6_Original ==
    RowWritten(0) =>
        /\ trace[0][12] = 8
        /\ \A c \in 13..15 : trace[0][c] = ZERO
        /\ \A c \in 16..19 : trace[0][c] = TargetKey[c - 16]
        /\ \A c \in 20..23 : trace[0][c] = topic_hash[c - 20]
        /\ Lane(trace[0], 0) = rescue_state

\* C6 amended: once row 0 is written, its columns 12..23 are [8,0,0,0,
\* elements 4..7 of the fabricated pre-image, Digest(Topic)], its columns
\* 0..11 are the fabricated pre-image and its column 24 is 0.
C6_Cycle0Seeding ==
    RowWritten(0) =>
        /\ trace[0][12] = 8
        /\ \A c \in 13..15 : trace[0][c] = ZERO
        /\ \A c \in 16..19 : trace[0][c] = rescue_state[c - 12]
        /\ \A c \in 20..23 : trace[0][c] = topic_hash[c - 20]
        /\ Lane(trace[0], 0) = rescue_state
        /\ trace[0][24] = ZERO

C6_Witness ==
    /\ pc = "nullifier_rounds"
    /\ round = 0
    /\ RowWritten(0)
    /\ \E c \in 16..19 : trace[0][c] # TargetKey[c - 16]
    /\ \A c \in 16..19 : trace[0][c] = rescue_state[c - 12]

\* C7 as stated: in the finished trace, column 24 holds one and the same
\* nonzero field element in all 32 rows.
C7_Original ==
    TraceFinished =>
        \E v \in Felt \ {ZERO} : \A r \in Rows : trace[r][24] = v

\* C7 amended: in the finished trace, column 24 holds ONE in row 1 and
\* zero in the other 31 rows.
C7_TechnicalColumn ==
    TraceFinished =>
        \A r \in Rows : trace[r][24] = IF r = 1 THEN ONE ELSE ZERO

C7_Witness ==
    /\ pc = "prove"
    /\ TraceFinished
    /\ trace[1][24] = ONE
    /\ trace[0][24] = ZERO
    /\ trace[TRACE_LENGTH - 1][24] = ZERO

\* C8: once verify_signal has returned an error, main has reported the
\* error, has not reported the signal as verified, control is past the
\* match, and main panics only if the later assert_ne! fails.
C8_VerifyErrorIsReported ==
    verify_result = "Err" =>
        /\ pc \in {"after_match", "done", "panic"}
        /\ \E k \in 1..Len(log) : log[k] = MSG_WRONG
        /\ \A k \in 1..Len(log) : log[k] # MSG_VERIFIED
        /\ pc = "panic" => to_bytes(signal.nullifier) = HONEST_NULLIFIER_BYTES

C8_Witness ==
    /\ verify_result = "Err"
    /\ pc = "done"
    /\ log[Len(log)] = MSG_WRONG

\* C9: for each cycle c in 1..3, once row 8c is written, its columns 0..3
\* are [8,0,0,0], its columns 4..7 are those of row 8c-1, its columns 8..11
\* are the c-th digest of the membership path, its columns 16..19 equal its
\* columns 4..7, and its columns 12..15 and 20..24 are zero.
C9_CycleBoundarySeeding ==
    \A c \in 1..LAST_CYCLE :
        RowWritten(CYCLE_LENGTH * c) =>
            LET row == trace[CYCLE_LENGTH * c]
                before == trace[CYCLE_LENGTH * c - 1]
            IN  /\ row[0] = 8
                /\ \A k \in 1..3 : row[k] = ZERO
                /\ \A k \in 4..7 : row[k] = before[k]
                /\ \A k \in 8..11 : row[k] = merkle_path[c + 1][k - 8]
                /\ \A k \in 16..19 : row[k] = row[k - 12]
                /\ \A k \in 12..15 : row[k] = ZERO
                /\ \A k \in 20..24 : row[k] = ZERO

C9_Witness ==
    /\ TraceFinished
    /\ RowWritten(24)
    /\ \E k \in 20..23 : trace[23][k] # ZERO
    /\ \A k \in 20..24 : trace[24][k] = ZERO
    /\ \A k \in 4..7 : trace[24][k] = trace[23][k]

\* the nullifier, once saved, is columns 16..19 of row 7, which is 7 forward
\* rounds of [8,0,0,0, pre-image elements 4..7, Digest(Topic)]; the signal
\* carries it
NullifierFixed ==
    nullifier # <<>> =>
        /\ \A j \in DigestIdx : nullifier[j] = trace[7][16 + j]
        /\ Lane(trace[7], 12) =
             apply_permutation(
                 [i \in Idx |->
                     IF i = 0 THEN 8
                     ELSE IF i < 4 THEN ZERO
                     ELSE IF i < 8 THEN rescue_state[i]
                     ELSE topic_hash[i - 8]],
                 NUM_ROUNDS)
        /\ signal # <<>> => signal.nullifier = nullifier

\* C10: the returned nullifier is fixed at the end of cycle 0: it is columns
\* 16..19 of row 7, the result of 7 forward rounds on [8,0,0,0, pre-image
\* elements 4..7, Digest(Topic)], and no later step changes it or the row
\* it was read from.
C10_NullifierFixedAtCycle0 ==
    /\ []NullifierFixed
    /\ [][nullifier # <<>> =>
            /\ nullifier' = nullifier
            /\ trace'[7] = trace[7]
            /\ rescue_state' = rescue_state
            /\ topic_hash' = topic_hash]_vars

C10_Witness ==
    /\ pc = "done"
    /\ signal # <<>>
    /\ signal.nullifier = nullifier
    /\ \A j \in DigestIdx : nullifier[j] = trace[7][16 + j]
    /\ \E j \in DigestIdx : nullifier[j] # trace[TRACE_LENGTH - 1][16 + j]

=============================================================================
